---- MODULE Spec2Model ----
(***************************************************************************)
(* Mesh repair and re-partitioning scripts of cli-tool/:                   *)
(*   fix_holes_aggressive.py, make_legs_black_geometry.py,                 *)
(*   split_by_angle.py, close_bottom.py.                                   *)
(*                                                                         *)
(* A mesh is a sequence of vertex positions (integer triples, one model    *)
(* unit = the 0.0001 merge threshold of remove_doubles) and a sequence of  *)
(* faces; a face is its loop of 1-based vertex indices (the winding) and   *)
(* its material_index.  The host operators the scripts call (bpy.ops.mesh) *)
(* are operators on that record, written from what the host does at the    *)
(* call: remove_doubles, delete_loose, select_non_manifold, fill_grid,     *)
(* edge_face_add, normals_make_consistent.  matrix_world is the identity,  *)
(* so world space and object space coincide.                               *)
(***************************************************************************)
EXTENDS Integers, Sequences, FiniteSets, TLC

VARIABLES
    script,            \* the script that runs
    pc,                \* where the script is
    scene,             \* mesh_objects: the mesh objects of the imported scene
    obj,               \* index in mesh_objects of the object being processed
    materials,         \* bpy.data.materials: the material datablocks of the file
    log,               \* what was done to the current object, in order
    pass_num, selected_edges, remaining_holes,                        \* fix_holes_aggressive
    vertical_axis, leg_threshold, black_mat_index, leg_faces, body_faces,  \* make_legs_black
    z_threshold, height_percent,                                      \* split_by_angle arguments
    leg_height_threshold, legs_faces, fabric_faces,                   \* split_by_angle
    threshold_y, bottom_verts,                                        \* close_bottom
    bottom_faces, inverted_faces,                                     \* fix_bottom_normals
    bottom_faces_count, uv                                            \* fix_bottom_uvs

holeVars  == <<pass_num, selected_edges, remaining_holes>>
legVars   == <<vertical_axis, leg_threshold, black_mat_index, leg_faces, body_faces>>
splitVars == <<z_threshold, height_percent, leg_height_threshold, legs_faces, fabric_faces>>
closeVars == <<threshold_y, bottom_verts>>
bottomVars == <<bottom_faces, inverted_faces, bottom_faces_count, uv>>

vars == <<script, pc, scene, obj, materials, log, holeVars, legVars, splitVars, closeVars,
          bottomVars>>

(***************************************************************************)
(* Bounds of the model and constants of the program.                       *)
(***************************************************************************)
\* at most this many faces of the base shape are missing from an input mesh
MaxMissing == 2
\* the faces 1..MaxFlipped of the base shape may come in with reversed winding
MaxFlipped == 2
\* at most this many near-duplicate vertices are added to an input mesh
MaxDup == 2
\* at most this many mesh objects in the imported scene
MaxObjects == 2

\* remove_doubles(threshold=0.0001), in model units
WeldThreshold == 1
\* for pass_num in range(3)
MaxPasses == 3

(***************************************************************************)
(* Vectors and sequences.                                                  *)
(***************************************************************************)
Axes == {"x", "y", "z"}

AxisIndex(a) == CASE a = "x" -> 1 [] a = "y" -> 2 [] a = "z" -> 3

VSub(p, q) == <<p[1] - q[1], p[2] - q[2], p[3] - q[3]>>

VAdd(p, q) == <<p[1] + q[1], p[2] + q[2], p[3] + q[3]>>

VScale(k, p) == <<k * p[1], k * p[2], k * p[3]>>

VDot(p, q) == p[1] * q[1] + p[2] * q[2] + p[3] * q[3]

VCross(p, q) == <<p[2] * q[3] - p[3] * q[2],
                  p[3] * q[1] - p[1] * q[3],
                  p[1] * q[2] - p[2] * q[1]>>

Range(s) == {s[i] : i \in DOMAIN s}

RECURSIVE SeqSum(_)
SeqSum(s) == IF s = <<>> THEN 0 ELSE Head(s) + SeqSum(Tail(s))

RECURSIVE VSum(_)
VSum(s) == IF s = <<>> THEN <<0, 0, 0>> ELSE VAdd(Head(s), VSum(Tail(s)))

Reverse(s) == [i \in 1..Len(s) |-> s[Len(s) + 1 - i]]

Min(S) == CHOOSE m \in S : \A n \in S : m <= n

Max(S) == CHOOSE m \in S : \A n \in S : m >= n

\* the members of a set of integers in increasing order
RECURSIVE SortedSeq(_)
SortedSeq(S) == IF S = {} THEN <<>> ELSE <<Min(S)>> \o SortedSeq(S \ {Min(S)})

SelectIdx(s, keep) == SortedSeq({i \in DOMAIN s : i \in keep})

\* the squared distance between two positions
Dist2(p, q) == VDot(VSub(p, q), VSub(p, q))

(***************************************************************************)
(* Derived geometry of a mesh: edges, centers, normals, bounding box.      *)
(***************************************************************************)
Next1(loop, i) == loop[(i % Len(loop)) + 1]

\* the unordered edges of one face loop (a face of k vertices gives k edges)
FaceEdges(loop) == {{loop[i], Next1(loop, i)} : i \in DOMAIN loop}

\* the ordered (directed) edges of one face loop
FaceDirEdges(loop) == {<<loop[i], Next1(loop, i)>> : i \in DOMAIN loop}

AllEdges(m) == UNION {FaceEdges(m.faces[f].verts) : f \in DOMAIN m.faces}

FacesOfEdge(m, e) == {f \in DOMAIN m.faces : e \in FaceEdges(m.faces[f].verts)}

\* poly.center / calc_center_median, times the number of loop vertices
CenterSum(m, f) == VSum([i \in DOMAIN m.faces[f].verts |-> m.verts[m.faces[f].verts[i]]])

\* poly.normal before normalisation (Newell's sum of cross products)
FaceNormal(m, f) ==
    LET loop == m.faces[f].verts
    IN  VSum([i \in DOMAIN loop |-> VCross(m.verts[loop[i]], m.verts[Next1(loop, i)])])

\* obj.bound_box under the identity matrix_world: min and max per axis
BoundMin(m, a) == Min({m.verts[i][AxisIndex(a)] : i \in DOMAIN m.verts})

BoundMax(m, a) == Max({m.verts[i][AxisIndex(a)] : i \in DOMAIN m.verts})

(***************************************************************************)
(* Renumbering after vertices are removed: the kept vertices keep their    *)
(* order and are numbered 1..k; `target` sends every old index to the old  *)
(* index of the vertex that replaces it.                                   *)
(***************************************************************************)
Rank(keep, i) == Cardinality({j \in keep : j <= i})

\* a loop with cyclic repetitions of the same vertex removed
RECURSIVE Dedup(_)
Dedup(loop) ==
    IF Len(loop) <= 1 THEN loop
    ELSE IF \E i \in DOMAIN loop : loop[i] = Next1(loop, i)
         THEN LET i == Min({j \in DOMAIN loop : loop[j] = Next1(loop, j)})
              IN  Dedup([j \in 1..(Len(loop) - 1) |-> IF j < i THEN loop[j] ELSE loop[j + 1]])
         ELSE loop

Remap(loop, keep, target) == [i \in DOMAIN loop |-> Rank(keep, target[loop[i]])]

\* RebuildFaces as it would be if collapsed faces were kept
RECURSIVE RebuildFacesKeepCollapsed(_, _, _, _)
RebuildFacesKeepCollapsed(faces, keep, target, done) ==
    IF faces = <<>> THEN done
    ELSE RebuildFacesKeepCollapsed(Tail(faces), keep, target,
             Append(done, [Head(faces) EXCEPT !.verts = Dedup(Remap(@, keep, target))]))

\* faces rebuilt by a merge: a face left with fewer than 3 vertices is dropped,
\* and so is a rebuilt face that doubles a face kept before it
RECURSIVE RebuildFaces(_, _, _, _)
RebuildFaces(faces, keep, target, done) ==
    IF faces = <<>> THEN done
    ELSE LET f    == Head(faces)
             loop == Dedup(Remap(f.verts, keep, target))
             changed == \E i \in DOMAIN f.verts : target[f.verts[i]] # f.verts[i]
             double  == changed /\ \E k \in DOMAIN done : Range(done[k].verts) = Range(loop)
             degenerate == Cardinality(Range(loop)) < 3
         IN  RebuildFaces(Tail(faces), keep, target,
                          IF degenerate \/ double THEN done
                          ELSE Append(done, [f EXCEPT !.verts = loop]))

Compact(m, keep, target) ==
    LET order == SortedSeq(keep)
    IN  [m EXCEPT !.verts = [k \in DOMAIN order |-> m.verts[order[k]]],
                  !.faces = RebuildFaces(m.faces, keep, target, <<>>)]

(***************************************************************************)
(* bpy.ops.mesh.remove_doubles(threshold): in index order, every vertex    *)
(* not yet merged takes all later unmerged vertices within the threshold;  *)
(* the taking vertex stays where it is.                                    *)
(***************************************************************************)
RECURSIVE FindDoubles(_, _, _, _)
FindDoubles(verts, threshold, i, target) ==
    IF i > Len(verts) THEN target
    ELSE IF target[i] # 0 THEN FindDoubles(verts, threshold, i + 1, target)
    ELSE FindDoubles(verts, threshold, i + 1,
             [j \in DOMAIN verts |->
                 IF j = i THEN i
                 ELSE IF target[j] = 0 /\ Dist2(verts[i], verts[j]) <= threshold * threshold
                      THEN i ELSE target[j]])

WeldTargets(m, threshold) == FindDoubles(m.verts, threshold, 1, [j \in DOMAIN m.verts |-> 0])

\* the number of vertices a remove_doubles call merges away
MergedCount(m, threshold) ==
    LET target == WeldTargets(m, threshold)
    IN  Cardinality({i \in DOMAIN m.verts : target[i] # i})

\* RemoveDoubles as it would be if a merged vertex moved to the last vertex it took
RemoveDoublesAtLast(m, threshold) ==
    LET target == WeldTargets(m, threshold)
        moved  == [m EXCEPT !.verts = [i \in DOMAIN m.verts |->
                      m.verts[Max({j \in DOMAIN m.verts : target[j] = target[i]})]]]
    IN  Compact(moved, {i \in DOMAIN m.verts : target[i] = i}, target)

RemoveDoubles(m, threshold) ==
    LET target == WeldTargets(m, threshold)
    IN  Compact(m, {i \in DOMAIN m.verts : target[i] = i}, target)

(***************************************************************************)
(* bpy.ops.mesh.delete_loose(): vertices (and edges) of no face go.        *)
(***************************************************************************)
UsedVerts(m) == UNION {Range(m.faces[f].verts) : f \in DOMAIN m.faces}

DeleteLoose(m) == Compact(m, UsedVerts(m), [j \in DOMAIN m.verts |-> j])

(***************************************************************************)
(* bpy.ops.mesh.select_non_manifold(use_boundary=True, everything else     *)
(* False): the edges that belong to exactly one face.                      *)
(***************************************************************************)
BoundaryEdges(m) ==
    LET und == [f \in DOMAIN m.faces |-> FaceEdges(m.faces[f].verts)]
    IN  {e \in UNION Range(und) : Cardinality({f \in DOMAIN und : e \in und[f]}) = 1}

(***************************************************************************)
(* The loops the selected boundary edges form.  A connected part of the    *)
(* boundary in which every vertex has exactly two boundary edges is one    *)
(* closed loop; a part that pinches (a vertex with more boundary edges) is *)
(* no loop a fill can close.                                               *)
(***************************************************************************)
Neighbours(E, v) == UNION {e \ {v} : e \in {d \in E : v \in d}}

RECURSIVE Reach(_, _)
Reach(E, S) ==
    LET T == S \cup UNION {Neighbours(E, v) : v \in S}
    IN  IF T = S THEN S ELSE Reach(E, T)

IsSimpleLoop(E, part) == \A v \in part : Cardinality(Neighbours(E, v)) = 2

\* the loop through `path`, walked from its least vertex towards that vertex's
\* least neighbour
RECURSIVE Trace(_, _)
Trace(E, path) ==
    LET last == path[Len(path)]
        prev == IF Len(path) = 1 THEN 0 ELSE path[Len(path) - 1]
        cand == Neighbours(E, last) \ {prev}
        step == Min(cand)
    IN  IF cand = {} \/ step = path[1] \/ Len(path) >= Cardinality(UNION E) THEN path
        ELSE Trace(E, Append(path, step))

RECURSIVE LoopsFrom(_, _)
LoopsFrom(E, left) ==
    IF left = {} THEN <<>>
    ELSE LET part == Reach(E, {Min(left)})
         IN  (IF IsSimpleLoop(E, part) THEN <<Trace(E, <<Min(left)>>)>> ELSE <<>>)
             \o LoopsFrom(E, left \ part)

BoundaryLoops(m) == LoopsFrom(BoundaryEdges(m), UNION BoundaryEdges(m))

\* every boundary edge lies on a closed loop
AllSimple(m) ==
    LET E == BoundaryEdges(m)
    IN  \A v \in UNION E : Cardinality(Neighbours(E, v)) = 2

FaceExists(m, vs) == \E f \in DOMAIN m.faces : Range(m.faces[f].verts) = vs

NewFace(loop) == [verts |-> loop, material_index |-> 0]

(***************************************************************************)
(* bpy.ops.mesh.edge_face_add() on the selected boundary edges: each       *)
(* closed loop gets one face over its vertices, unless a face over exactly *)
(* those vertices is there already.                                        *)
(***************************************************************************)
RECURSIVE AddLoopFaces(_, _)
AddLoopFaces(m, loops) ==
    IF loops = <<>> THEN m
    ELSE AddLoopFaces(
             IF FaceExists(m, Range(Head(loops))) THEN m
             ELSE [m EXCEPT !.faces = Append(@, NewFace(Head(loops)))],
             Tail(loops))

\* EdgeFaceAdd as it would be if every new face came with vertices of its own
\* (a cap lying on the rim without being joined to it)
RECURSIVE AddDetachedFaces(_, _)
AddDetachedFaces(m, loops) ==
    IF loops = <<>> THEN m
    ELSE LET loop == Head(loops)
             nv   == Len(m.verts)
         IN  AddDetachedFaces(
                 [m EXCEPT !.verts = @ \o [i \in DOMAIN loop |-> m.verts[loop[i]]],
                           !.faces = Append(@, NewFace([i \in DOMAIN loop |-> nv + i]))],
                 Tail(loops))

EdgeFaceAddDetached(m) == AddDetachedFaces(m, BoundaryLoops(m))

EdgeFaceAdd(m) == AddLoopFaces(m, BoundaryLoops(m))

(***************************************************************************)
(* bpy.ops.mesh.fill_grid() on the selected boundary edges.  It needs one  *)
(* closed loop of an even number (at least 4) of edges and reports an      *)
(* error (an exception in the script) otherwise.  The loop of n edges is   *)
(* cut into two rails of span = max(1, n \div 4) edges joined by two sides *)
(* of n/2 - span edges; the grid between them gets span * (n/2 - span)     *)
(* quads and (span - 1) * (n/2 - span - 1) new inner vertices.             *)
(***************************************************************************)
GridFillApplies(m) ==
    LET loops == BoundaryLoops(m)
    IN  /\ AllSimple(m)
        /\ Len(loops) = 1
        /\ Len(loops[1]) >= 4
        /\ Len(loops[1]) % 2 = 0

GridSpan(n) == IF n \div 4 < 1 THEN 1 ELSE n \div 4

\* the vertex at grid position (i, j), 0 <= i <= span, 0 <= j <= other:
\* old vertices on the rim, new ones (numbered after nv) inside
GridVert(loop, nv, span, other, i, j) ==
    LET n == Len(loop)
        at(k) == loop[(k % n) + 1]
    IN  IF j = 0 THEN at(i)
        ELSE IF i = span THEN at(span + j)
        ELSE IF j = other THEN at(span + other + (span - i))
        ELSE IF i = 0 THEN at(2 * span + other + (other - j))
        ELSE nv + (j - 1) * (span - 1) + i

\* an inner vertex lies at the mean of the four rim vertices of its row and column
GridInnerPos(m, loop, span, other, i, j) ==
    LET s == VSum(<<m.verts[GridVert(loop, 0, span, other, i, 0)],
                    m.verts[GridVert(loop, 0, span, other, i, other)],
                    m.verts[GridVert(loop, 0, span, other, 0, j)],
                    m.verts[GridVert(loop, 0, span, other, span, j)]>>)
    IN  <<s[1] \div 4, s[2] \div 4, s[3] \div 4>>

\* FillGrid as it would be if the loop were closed by a fan of triangles
FillGridFan(m) ==
    LET loop == BoundaryLoops(m)[1]
    IN  [m EXCEPT !.faces = @ \o [k \in 1..(Len(loop) - 2) |->
                                     NewFace(<<loop[1], loop[k + 1], loop[k + 2]>>)]]

FillGrid(m) ==
    LET loop  == BoundaryLoops(m)[1]
        n     == Len(loop)
        span  == GridSpan(n)
        other == (n \div 2) - span
        nv    == Len(m.verts)
        inner == [k \in 1..((span - 1) * (other - 1)) |->
                     GridInnerPos(m, loop, span, other,
                                  ((k - 1) % (span - 1)) + 1, ((k - 1) \div (span - 1)) + 1)]
        quads == [k \in 1..(span * other) |->
                     LET i == (k - 1) % span
                         j == (k - 1) \div span
                     IN  NewFace(<<GridVert(loop, nv, span, other, i, j),
                                   GridVert(loop, nv, span, other, i + 1, j),
                                   GridVert(loop, nv, span, other, i + 1, j + 1),
                                   GridVert(loop, nv, span, other, i, j + 1)>>)]
    IN  [m EXCEPT !.verts = @ \o inner, !.faces = @ \o quads]

(***************************************************************************)
(* bpy.ops.mesh.normals_make_consistent(inside=False) with all selected.   *)
(* Faces joined through edges of exactly two faces form a group.  In each  *)
(* group the face whose center is farthest from the group's center is      *)
(* turned to face away from that center, and the winding of every other    *)
(* face of the group is made to agree with its neighbour across the shared *)
(* edge (neighbours agree when they run along the edge in opposite         *)
(* directions).                                                            *)
(***************************************************************************)
\* for every face, the faces it shares an edge of exactly two faces with
ManifoldAdjacency(m) ==
    LET F   == DOMAIN m.faces
        und == [f \in F |-> FaceEdges(m.faces[f].verts)]
        ef  == [e \in UNION {und[f] : f \in F} |-> {f \in F : e \in und[f]}]
    IN  [f \in F |-> {g \in F \ {f} : \E e \in und[f] \cap und[g] : ef[e] = {f, g}}]

RECURSIVE FaceGroup(_, _)
FaceGroup(adj, S) ==
    LET T == S \cup UNION {adj[f] : f \in S}
    IN  IF T = S THEN S ELSE FaceGroup(adj, T)

\* face centers on a common scale: 60 times the mean of the loop's vertices
Center60(m, f) == VScale(60 \div Len(m.faces[f].verts), CenterSum(m, f))

\* for every face of the group, the vector from the group's center to the
\* face's center, times 60 * |group|
FromCenter(m, group) ==
    LET c   == [f \in group |-> Center60(m, f)]
        sum == VSum([k \in 1..Cardinality(group) |-> c[SortedSeq(group)[k]]])
    IN  [f \in group |-> VSub(VScale(Cardinality(group), c[f]), sum)]

StartFace(m, group) ==
    LET from == FromCenter(m, group)
        far  == [f \in group |-> VDot(from[f], from[f])]
    IN  Min({f \in group : \A g \in group : far[f] >= far[g]})

\* StartFlip as it would be if a normal at right angles to the direction from
\* the center counted as pointing inwards
StartFlipOrthogonal(m, group) ==
    LET f == StartFace(m, group)
    IN  VDot(FromCenter(m, group)[f], FaceNormal(m, f)) <= 0

\* the start face is reversed when its normal points towards the center
StartFlip(m, group) ==
    LET f == StartFace(m, group)
    IN  VDot(FromCenter(m, group)[f], FaceNormal(m, f)) < 0

\* two faces run along their (least) shared edge in the same direction: they
\* disagree
SameDirection(m, f, g) ==
    LET shared == FaceEdges(m.faces[f].verts) \cap FaceEdges(m.faces[g].verts)
        e == CHOOSE e \in shared :
                 \A e2 \in shared : Min(e) < Min(e2) \/ (Min(e) = Min(e2) /\ Max(e) <= Max(e2))
    IN  \E d \in FaceDirEdges(m.faces[f].verts) \cap FaceDirEdges(m.faces[g].verts) :
            {d[1], d[2]} = e

\* flip: the faces decided so far, each with whether it is reversed
RECURSIVE Propagate(_, _, _, _)
Propagate(m, adj, group, flip) ==
    LET open == {f \in group \ DOMAIN flip : adj[f] \cap DOMAIN flip # {}}
    IN  IF open = {} THEN flip
        ELSE LET f == Min(open)
                 g == Min(adj[f] \cap DOMAIN flip)
                 b == (flip[g] # SameDirection(m, f, g))
             IN  Propagate(m, adj, group,
                           [x \in DOMAIN flip \cup {f} |-> IF x = f THEN b ELSE flip[x]])

GroupFlips(m, adj, group) ==
    LET flip == Propagate(m, adj, group,
                          [x \in {StartFace(m, group)} |-> StartFlip(m, group)])
    IN  {f \in DOMAIN flip : flip[f]}

RECURSIVE AllFlips(_, _, _)
AllFlips(m, adj, left) ==
    IF left = {} THEN {}
    ELSE LET group == FaceGroup(adj, {Min(left)})
         IN  GroupFlips(m, adj, group) \cup AllFlips(m, adj, left \ group)

\* flip_normals on a set of faces: their loops are reversed
FlipFaces(m, F) ==
    [m EXCEPT !.faces = [f \in DOMAIN m.faces |->
        IF f \in F THEN [m.faces[f] EXCEPT !.verts = Reverse(@)] ELSE m.faces[f]]]

\* the number of faces whose winding differs between two states of a mesh
FlippedCount(old, new) ==
    Cardinality({f \in DOMAIN old.faces \cap DOMAIN new.faces :
                    old.faces[f].verts # new.faces[f].verts})

\* the faces a normals_make_consistent call reverses
FlippedBy(m) == AllFlips(m, ManifoldAdjacency(m), DOMAIN m.faces)

NormalsMakeConsistent(m) == FlipFaces(m, FlippedBy(m))

(***************************************************************************)
(* The meshes an import can deliver.  The base shape is a two-storey box   *)
(* ("legs" storey of height H1 under a body of height H2, footprint W x D) *)
(* standing along one of the three axes, of which some faces may be        *)
(* missing (holes), some wound the wrong way, and a corner may be split    *)
(* into near-duplicate vertices (a seam); a lone triangle; and an object   *)
(* of loose vertices without faces.  A material datablock is its name: the *)
(* base name and the number of the ".001" suffix the host appends to keep  *)
(* names unique (0: no suffix).                                            *)
(***************************************************************************)
\* <<W, D, H1, H2>> and the axis the box stands along
Poses == { [dim |-> <<80, 20, 4, 12>>, up |-> "z"],
           [dim |-> <<80, 16, 4, 12>>, up |-> "z"],
           [dim |-> <<80, 40, 8, 12>>, up |-> "z"],
           [dim |-> <<20, 80, 4, 12>>, up |-> "y"],
           [dim |-> <<20, 20, 4, 12>>, up |-> "x"] }

\* footprint coordinates a, b and height h as a position in x, y, z
Place(up, a, b, h) ==
    CASE up = "z" -> <<a, b, h>>
      [] up = "y" -> <<b, h, a>>
      [] up = "x" -> <<h, a, b>>

BoxVerts(pose) ==
    LET W == pose.dim[1]
        D == pose.dim[2]
        ring(h) == <<Place(pose.up, 0, 0, h), Place(pose.up, W, 0, h),
                     Place(pose.up, W, D, h), Place(pose.up, 0, D, h)>>
    IN  ring(0) \o ring(pose.dim[3]) \o ring(pose.dim[3] + pose.dim[4])

\* bottom, four leg-storey sides, four body sides, top: all wound outwards
BoxLoops == << <<1, 4, 3, 2>>,
               <<1, 2, 6, 5>>, <<2, 3, 7, 6>>, <<3, 4, 8, 7>>, <<4, 1, 5, 8>>,
               <<5, 6, 10, 9>>, <<6, 7, 11, 10>>, <<7, 8, 12, 11>>, <<8, 5, 9, 12>>,
               <<9, 10, 11, 12>> >>

\* the faces that may be missing from an imported box
MissingCandidates == {1, 2, 3, 7, 10}

\* the k-th near-duplicate of corner 2 lies k units from it along the footprint
DupVerts(pose, dups) ==
    [k \in 1..dups |-> Place(pose.up, pose.dim[1] + k, 0, 0)]

\* which corner-2 copy a face uses: face 3 the first copy, face 1 the second
SeamVertex(f, dups) ==
    IF f = 3 /\ dups >= 1 THEN 13
    ELSE IF f = 1 /\ dups >= 2 THEN 14
    ELSE 2

\* the sliver triangle that spans the seam between corner 2 and its first copy
Sliver == <<6, 2, 13>>

BoxMesh(pose, missing, flipped, dups, slots) ==
    LET loopOf(f) ==
            LET seamed == [i \in 1..4 |-> IF BoxLoops[f][i] = 2 THEN SeamVertex(f, dups)
                                          ELSE BoxLoops[f][i]]
            IN  IF f \in flipped THEN Reverse(seamed) ELSE seamed
        present == SortedSeq((1..10) \ missing)
    IN  [verts     |-> BoxVerts(pose) \o DupVerts(pose, dups),
         faces     |-> [k \in DOMAIN present |->
                           [verts |-> loopOf(present[k]), material_index |-> 0]]
                       \o (IF dups >= 1 THEN <<NewFace(Sliver)>> ELSE <<>>),
         materials |-> slots]

Triangle ==
    [verts     |-> << <<0, 0, 0>>, <<16, 0, 0>>, <<0, 16, 0>> >>,
     faces     |-> << [verts |-> <<1, 2, 3>>, material_index |-> 0] >>,
     materials |-> <<>>]

Points ==
    [verts     |-> << <<0, 0, 0>>, <<16, 0, 0>>, <<0, 16, 8>> >>,
     faces     |-> <<>>,
     materials |-> <<>>]

\* a box between two corners, standing along an axis: its 8 vertices, and its 6
\* faces (bottom, four sides, top) wound outwards, numbered from base + 1
PrismVerts(up, a0, a1, b0, b1, h0, h1) ==
    LET ring(h) == <<Place(up, a0, b0, h), Place(up, a1, b0, h),
                     Place(up, a1, b1, h), Place(up, a0, b1, h)>>
    IN  ring(h0) \o ring(h1)

PrismLoops(base) ==
    LET loops == << <<1, 4, 3, 2>>, <<1, 2, 6, 5>>, <<2, 3, 7, 6>>, <<3, 4, 8, 7>>,
                    <<4, 1, 5, 8>>, <<5, 6, 7, 8>> >>
    IN  [f \in 1..6 |-> NewFace([i \in 1..4 |-> base + loops[f][i]])]

\* a closed cube of side 16
Cube(up) ==
    [verts     |-> PrismVerts(up, 0, 16, 0, 16, 0, 16),
     faces     |-> PrismLoops(0),
     materials |-> <<>>]

\* the cube without its bottom face
OpenCube(up) == [Cube(up) EXCEPT !.faces = Tail(@)]

\* one mesh of two closed boxes side by side: a tall one and a low plinth
Stepped(up) ==
    [verts     |-> PrismVerts(up, 0, 16, 0, 16, 0, 16) \o PrismVerts(up, 24, 40, 0, 16, 0, 2),
     faces     |-> PrismLoops(0) \o PrismLoops(8),
     materials |-> <<>>]

\* one mesh of two separate quads, at the bottom and at the top, both facing up
Plates(up) ==
    [verts     |-> PrismVerts(up, 0, 16, 0, 16, 0, 16),
     faces     |-> <<NewFace(<<1, 2, 3, 4>>), NewFace(<<5, 6, 7, 8>>)>>,
     materials |-> <<>>]

\* the material slots an imported object may come with: none, one, or the two
\* that an earlier run of make_legs_black has left
ImportedSlots == { <<>>, << <<"Material", 0>> >>, << <<"Material", 0>>, <<"Black_Legs", 0>> >> }

Missings == {s \in SUBSET MissingCandidates : Cardinality(s) <= MaxMissing}

\* no face, one face, or all of the first MaxFlipped faces wound the wrong way
Flips == {{}, 1..MaxFlipped} \cup {{k} : k \in 1..MaxFlipped}

Dups == 0..MaxDup

Boxes(poses, missings, flips, dups, slotsets) ==
    { BoxMesh(pose, missing, flipped, d, slots) :
        pose \in poses, missing \in missings, flipped \in flips, d \in dups,
        slots \in slotsets }

\* the objects of a scene of two or more meshes
Companions ==
    { Triangle,
      BoxMesh([dim |-> <<80, 20, 4, 12>>, up |-> "z"], {}, {}, 0, << <<"Material", 0>> >>),
      BoxMesh([dim |-> <<20, 80, 4, 12>>, up |-> "y"], {1}, {2}, 0, <<>>) }

RECURSIVE SeqsOf(_, _)
SeqsOf(S, n) == IF n = 0 THEN {<<>>} ELSE {Append(s, x) : s \in SeqsOf(S, n - 1), x \in S}

\* the mesh_objects lists an import can give: none, one mesh, or several companions
Scenes(single) ==
    {<<>>} \cup {<<m>> : m \in single \cup {Triangle, Points}}
           \cup {<<m>> : m \in {Cube("z"), OpenCube("z"), OpenCube("y")}}
           \cup UNION {SeqsOf(Companions, n) : n \in 2..MaxObjects}

(***************************************************************************)
(* State of a run.                                                         *)
(***************************************************************************)
Scripts == {"fix_holes_aggressive", "make_legs_black_geometry", "split_by_angle", "close_bottom",
            "fix_bottom_normals", "fix_bottom_uvs", "fix_bottom_hole"}

\* the object being processed
Mesh == scene[obj]

SetMesh(m) == scene' = [scene EXCEPT ![obj] = m]

Logged(event) == log' = Append(log, event)

\* the material datablocks the imported file brings
ImportedMaterials(sc) == UNION {Range(sc[i].materials) : i \in DOMAIN sc}

\* z_threshold=0.5, as the fraction <<numerator, denominator>>
ZThresholdDefault == <<1, 2>>

\* height_percent=0.20, in thousandths
HeightPercentDefault == 200

InitLocals ==
    /\ pass_num = 0 /\ selected_edges = 0 /\ remaining_holes = 0
    /\ vertical_axis = "none" /\ leg_threshold = 0 /\ black_mat_index = 0
    /\ leg_faces = <<>> /\ body_faces = <<>>
    /\ leg_height_threshold = 0 /\ legs_faces = <<>> /\ fabric_faces = <<>>
    /\ threshold_y = 0 /\ bottom_verts = <<>>
    /\ bottom_faces = <<>> /\ inverted_faces = <<>> /\ bottom_faces_count = 0

\* after the next object is taken up, or the export when there is none
NextObject(first) ==
    IF obj < Len(scene)
    THEN /\ obj' = obj + 1
         /\ pc' = first
         /\ log' = <<>>
    ELSE /\ obj' = obj
         /\ pc' = "export"
         /\ log' = log

\* bpy.ops.export_scene.gltf, then the script returns
Export ==
    /\ pc = "export"
    /\ pc' = "done"
    /\ UNCHANGED <<bottomVars, script, scene, obj, materials, log, holeVars, legVars, splitVars, closeVars>>

(***************************************************************************)
(* fix_holes_aggressive.py                                                 *)
(***************************************************************************)
HolesInit ==
    /\ script = "fix_holes_aggressive"
    /\ scene \in Scenes(Boxes({[dim |-> <<80, 20, 4, 12>>, up |-> "z"]},
                              Missings, Flips, Dups, {<<>>}))
    /\ materials = ImportedMaterials(scene)
    /\ pc = "import" /\ obj = 0 /\ log = <<>>
    /\ z_threshold = ZThresholdDefault /\ height_percent = HeightPercentDefault
    /\ InitLocals /\ uv = <<>>

\* lines 26-40: import; no mesh objects: return False
HolesImport ==
    /\ script = "fix_holes_aggressive" /\ pc = "import"
    /\ IF scene = <<>>
       THEN pc' = "returned_false" /\ obj' = obj
       ELSE pc' = "clean" /\ obj' = 1
    /\ UNCHANGED <<bottomVars, script, scene, materials, log, holeVars, legVars, splitVars, closeVars>>

\* line 56: remove_doubles(threshold=0.0001)
HolesRemoveDoubles ==
    /\ script = "fix_holes_aggressive" /\ pc = "clean"
    /\ LET welded == RemoveDoubles(Mesh, WeldThreshold)
       IN  /\ SetMesh(welded)
           /\ Logged(<<"remove_doubles", Len(Mesh.verts) - Len(welded.verts)>>)
    /\ pc' = "delete_loose"
    /\ UNCHANGED <<bottomVars, script, obj, materials, holeVars, legVars, splitVars, closeVars>>

\* line 57: delete_loose()
HolesDeleteLoose ==
    /\ script = "fix_holes_aggressive" /\ pc = "delete_loose"
    /\ SetMesh(DeleteLoose(Mesh))
    /\ Logged(<<"delete_loose", Len(Mesh.verts) - Cardinality(UsedVerts(Mesh))>>)
    /\ pc' = "normals"
    /\ UNCHANGED <<bottomVars, script, obj, materials, holeVars, legVars, splitVars, closeVars>>

\* lines 59-62: normals_make_consistent, then the pass loop starts
HolesNormals ==
    /\ script = "fix_holes_aggressive" /\ pc = "normals"
    /\ LET fixed == NormalsMakeConsistent(Mesh)
       IN  /\ SetMesh(fixed)
           /\ Logged(<<"normals", FlippedCount(Mesh, fixed)>>)
    /\ pass_num' = 0
    /\ pc' = "scan"
    /\ UNCHANGED <<bottomVars, script, obj, materials, selected_edges, remaining_holes,
                   legVars, splitVars, closeVars>>

\* lines 67-84: select the boundary edges and count them
HolesScan ==
    /\ script = "fix_holes_aggressive" /\ pc = "scan"
    /\ selected_edges' = Cardinality(BoundaryEdges(Mesh))
    /\ Logged(<<"scan", Cardinality(BoundaryEdges(Mesh))>>)
    /\ pc' = "fill"
    /\ UNCHANGED <<bottomVars, script, scene, obj, materials, pass_num, remaining_holes,
                   legVars, splitVars, closeVars>>

\* InRange as it would be if the loop ran one pass more
InRangeInclusive(n) == n <= MaxPasses

\* line 67: for pass_num in range(3)
InRange(n) == n < MaxPasses

\* lines 89-96: fill_grid, and edge_face_add when fill_grid raises
TryFill(m) == IF GridFillApplies(m) THEN FillGrid(m) ELSE EdgeFaceAdd(m)

\* lines 86-100: a pass that found boundary edges fills and recalculates the
\* normals; the loop goes on while pass_num stays in range(3)
HolesFill ==
    /\ script = "fix_holes_aggressive" /\ pc = "fill"
    /\ selected_edges > 0
    /\ LET filled == TryFill(Mesh)
           fixed  == NormalsMakeConsistent(filled)
       IN  /\ SetMesh(fixed)
           /\ log' = log \o << <<IF GridFillApplies(Mesh) THEN "fill_grid" ELSE "edge_face_add",
                                 Len(filled.faces) - Len(Mesh.faces)>>,
                               <<"normals", FlippedCount(filled, fixed)>> >>
    /\ pass_num' = pass_num + 1
    /\ pc' = IF InRange(pass_num + 1) THEN "scan" ELSE "final"
    /\ UNCHANGED <<bottomVars, script, obj, materials, selected_edges, remaining_holes,
                   legVars, splitVars, closeVars>>

\* lines 101-103: no boundary edges: break
HolesNoHoles ==
    /\ script = "fix_holes_aggressive" /\ pc = "fill"
    /\ selected_edges = 0
    /\ pc' = "final"
    /\ UNCHANGED <<bottomVars, script, scene, obj, materials, log, holeVars, legVars, splitVars, closeVars>>

\* HolesFinalCleanup as it would be with the two steps of the final cleanup
\* exchanged: the normals recalculated first, the weld last
HolesFinalCleanupNormalsFirst ==
    /\ script = "fix_holes_aggressive" /\ pc = "final"
    /\ LET fixed  == NormalsMakeConsistent(Mesh)
           welded == RemoveDoubles(fixed, WeldThreshold)
       IN  /\ SetMesh(welded)
           /\ log' = log \o << <<"normals", FlippedCount(Mesh, fixed)>>,
                               <<"remove_doubles", Len(fixed.verts) - Len(welded.verts)>> >>
    /\ pc' = "check"
    /\ UNCHANGED <<bottomVars, script, obj, materials, holeVars, legVars, splitVars, closeVars>>

\* lines 105-116: remove_doubles again, then the final normals_make_consistent
HolesFinalCleanup ==
    /\ script = "fix_holes_aggressive" /\ pc = "final"
    /\ LET welded == RemoveDoubles(Mesh, WeldThreshold)
           fixed  == NormalsMakeConsistent(welded)
       IN  /\ SetMesh(fixed)
           /\ log' = log \o << <<"remove_doubles", Len(Mesh.verts) - Len(welded.verts)>>,
                               <<"normals", FlippedCount(welded, fixed)>> >>
    /\ pc' = "check"
    /\ UNCHANGED <<bottomVars, script, obj, materials, holeVars, legVars, splitVars, closeVars>>

\* Report as it would be if the script announced success whatever it counted
ReportAlwaysClosed(n) == "all_closed"

\* lines 132-135: "All holes closed successfully!" or "boundary edges remain"
Report(n) == IF n = 0 THEN "all_closed" ELSE "edges_remain"

\* lines 118-135: count the boundary edges that remain and report
HolesCheck ==
    /\ script = "fix_holes_aggressive" /\ pc = "check"
    /\ remaining_holes' = Cardinality(BoundaryEdges(Mesh))
    /\ Logged(<<"remaining", Cardinality(BoundaryEdges(Mesh)),
                 Report(Cardinality(BoundaryEdges(Mesh)))>>)
    /\ pc' = "object_done"
    /\ UNCHANGED <<bottomVars, script, scene, obj, materials, pass_num, selected_edges,
                   legVars, splitVars, closeVars>>

\* lines 42, 137-140: the next object of the for loop, or on to the export
HolesNextObject ==
    /\ script = "fix_holes_aggressive" /\ pc = "object_done"
    /\ NextObject("clean")
    /\ UNCHANGED <<bottomVars, script, scene, materials, holeVars, legVars, splitVars, closeVars>>

HolesNext ==
    \/ HolesImport \/ HolesRemoveDoubles \/ HolesDeleteLoose \/ HolesNormals
    \/ HolesScan \/ HolesFill \/ HolesNoHoles \/ HolesFinalCleanup \/ HolesCheck
    \/ HolesNextObject \/ Export

SpecHoles == HolesInit /\ [][HolesNext]_vars

(***************************************************************************)
(* Position and angle tests.  Thresholds are kept in thousandths of a unit *)
(* (0.185, 0.20 and 0.05 are 185, 200 and 50 thousandths), and a face      *)
(* center is the sum of its k loop vertices divided by k, so               *)
(* center <= threshold is 1000 * sum <= k * threshold1000.                 *)
(***************************************************************************)
Width(m, a) == BoundMax(m, a) - BoundMin(m, a)

\* the coordinate sum of the face's loop vertices along the axis
CenterCoordSum(m, f, a) == CenterSum(m, f)[AxisIndex(a)]

\* make_legs_black_geometry.py lines 68-94
DetectVerticalAxis(width_x, width_y, width_z) ==
    IF width_y < width_x /\ width_y < width_z THEN "y"
    ELSE IF width_z < width_x /\ width_z < width_y THEN "z"
    ELSE "x"

\* make_legs_black_geometry.py line 119: vertical_min + (vertical_range * 0.185)
LegThreshold(m, a) == 1000 * BoundMin(m, a) + 185 * Width(m, a)

\* make_legs_black_geometry.py line 138: vertical_coord <= leg_threshold
InLegRegion(m, f, a, threshold1000) ==
    1000 * CenterCoordSum(m, f, a) <= Len(m.faces[f].verts) * threshold1000

\* PositionGroups as it would be if body_faces.append ran for every polygon
PositionGroupsNoElse(m, a, threshold1000) ==
    [leg_faces  |-> SortedSeq({f \in DOMAIN m.faces : InLegRegion(m, f, a, threshold1000)}),
     body_faces |-> SortedSeq(DOMAIN m.faces)]

\* make_legs_black_geometry.py lines 121-142: the loop that sorts every polygon
\* into leg_faces or body_faces
PositionGroups(m, a, threshold1000) ==
    [leg_faces  |-> SortedSeq({f \in DOMAIN m.faces : InLegRegion(m, f, a, threshold1000)}),
     body_faces |-> SortedSeq({f \in DOMAIN m.faces : ~InLegRegion(m, f, a, threshold1000)})]

\* split_by_angle.py line 82: min_z + (z_range * 0.20)
LegHeightThreshold(m) == 1000 * BoundMin(m, "z") + 200 * Width(m, "z")

\* split_by_angle.py line 104: face_center.z < leg_height_threshold
IsAtBottom(m, f, threshold1000) ==
    1000 * CenterCoordSum(m, f, "z") < Len(m.faces[f].verts) * threshold1000

\* split_by_angle.py line 105: abs(normal.z) < z_threshold, the normal being
\* the unit normal (the zero vector for a face without area)
IsVertical(m, f, zt) ==
    LET n == FaceNormal(m, f)
    IN  IF VDot(n, n) = 0 THEN 0 < zt[1]
        ELSE zt[2] * zt[2] * n[3] * n[3] < zt[1] * zt[1] * VDot(n, n)

\* IsLeg as it would be with "or" for "and"
IsLegEither(m, f, threshold1000, zt) == IsAtBottom(m, f, threshold1000) \/ IsVertical(m, f, zt)

\* split_by_angle.py line 107: is_at_bottom and is_vertical
IsLeg(m, f, threshold1000, zt) == IsAtBottom(m, f, threshold1000) /\ IsVertical(m, f, zt)

\* split_by_angle.py lines 91-111: the loop that sorts every face into
\* legs_faces or fabric_faces
HybridGroups(m, threshold1000, zt) ==
    [legs_faces   |-> SortedSeq({f \in DOMAIN m.faces : IsLeg(m, f, threshold1000, zt)}),
     fabric_faces |-> SortedSeq({f \in DOMAIN m.faces : ~IsLeg(m, f, threshold1000, zt)})]

\* close_bottom.py line 68: min_y + (max_x - min_x) * 0.05
ThresholdY(m) == 1000 * BoundMin(m, "y") + 50 * (BoundMax(m, "x") - BoundMin(m, "x"))

\* close_bottom.py line 73: world_co.y <= threshold_y
IsBottomVert(m, v, threshold1000) == 1000 * m.verts[v][2] <= threshold1000

(***************************************************************************)
(* Materials.                                                              *)
(***************************************************************************)
\* bpy.data.materials.new(name): the name itself if free, else the first free
\* numbered name
NewMaterial(mats, name) ==
    <<name, Min({n \in 0..Cardinality(mats) : <<name, n>> \notin mats})>>

\* AssignMaterial as it would be if every face of the mesh took the index
AssignMaterialEveryFace(m, faces, index) ==
    [m EXCEPT !.faces = [f \in DOMAIN m.faces |-> [m.faces[f] EXCEPT !.material_index = index]]]

\* material_slot_assign / face.material_index = index on a list of faces
AssignMaterial(m, faces, index) ==
    [m EXCEPT !.faces = [f \in DOMAIN m.faces |->
        IF f \in Range(faces) THEN [m.faces[f] EXCEPT !.material_index = index]
        ELSE m.faces[f]]]

(***************************************************************************)
(* make_legs_black_geometry.py                                             *)
(***************************************************************************)
LegsInit ==
    /\ script = "make_legs_black_geometry"
    /\ scene \in Scenes(Boxes(Poses, Missings, {{}}, Dups, ImportedSlots))
    /\ materials = ImportedMaterials(scene)
    /\ pc = "import" /\ obj = 0 /\ log = <<>>
    /\ z_threshold = ZThresholdDefault /\ height_percent = HeightPercentDefault
    /\ InitLocals /\ uv = <<>>

\* lines 22-36: import; no mesh objects: return False
LegsImport ==
    /\ script = "make_legs_black_geometry" /\ pc = "import"
    /\ IF scene = <<>>
       THEN pc' = "returned_false" /\ obj' = obj
       ELSE pc' = "bounds" /\ obj' = 1
    /\ UNCHANGED <<bottomVars, script, scene, materials, log, holeVars, legVars, splitVars, closeVars>>

\* lines 46-94: the bounding box and the axis taken for vertical
LegsBounds ==
    /\ script = "make_legs_black_geometry" /\ pc = "bounds"
    /\ vertical_axis' = DetectVerticalAxis(Width(Mesh, "x"), Width(Mesh, "y"), Width(Mesh, "z"))
    /\ Logged(<<"vertical_axis",
                DetectVerticalAxis(Width(Mesh, "x"), Width(Mesh, "y"), Width(Mesh, "z"))>>)
    /\ pc' = "material"
    /\ UNCHANGED <<bottomVars, script, scene, obj, materials, leg_threshold, black_mat_index,
                   leg_faces, body_faces, holeVars, splitVars, closeVars>>

\* lines 96-111: a new Black_Legs material is appended to the object's slots
LegsMaterial ==
    /\ script = "make_legs_black_geometry" /\ pc = "material"
    /\ LET black_mat == NewMaterial(materials, "Black_Legs")
       IN  /\ materials' = materials \cup {black_mat}
           /\ SetMesh([Mesh EXCEPT !.materials = Append(@, black_mat)])
           /\ black_mat_index' = Len(Mesh.materials)
    /\ pc' = "classify"
    /\ UNCHANGED <<bottomVars, script, obj, log, vertical_axis, leg_threshold, leg_faces, body_faces,
                   holeVars, splitVars, closeVars>>

\* lines 118-145: faces at or under the leg threshold are legs, the rest body
LegsClassify ==
    /\ script = "make_legs_black_geometry" /\ pc = "classify"
    /\ LET threshold == LegThreshold(Mesh, vertical_axis)
           groups == PositionGroups(Mesh, vertical_axis, threshold)
       IN  /\ leg_threshold' = threshold
           /\ leg_faces' = groups.leg_faces
           /\ body_faces' = groups.body_faces
           /\ pc' = IF Len(groups.leg_faces) = 0 THEN "fallback" ELSE "assign"
    /\ Logged(<<"classified", "position">>)
    /\ UNCHANGED <<bottomVars, script, scene, obj, materials, vertical_axis, black_mat_index,
                   holeVars, splitVars, closeVars>>

\* lines 147-163: no leg faces: the fallback loop reads leg_threshold_y, a name
\* that is bound nowhere, so its first iteration raises NameError and the
\* script ends there; without polygons the loop body never runs
LegsFallback ==
    /\ script = "make_legs_black_geometry" /\ pc = "fallback"
    /\ IF Len(Mesh.faces) > 0
       THEN /\ pc' = "crashed"
            /\ Logged(<<"NameError", "leg_threshold_y">>)
       ELSE /\ pc' = "assign"
            /\ Logged(<<"classified", "fallback">>)
    /\ UNCHANGED <<bottomVars, script, scene, obj, materials, legVars, holeVars, splitVars, closeVars>>

\* lines 165-176: the black material goes to the selected (leg) faces
LegsAssign ==
    /\ script = "make_legs_black_geometry" /\ pc = "assign"
    /\ IF Len(leg_faces) > 0
       THEN /\ SetMesh(AssignMaterial(Mesh, leg_faces, black_mat_index))
            /\ Logged(<<"assigned", Len(leg_faces)>>)
       ELSE UNCHANGED <<scene, log>>
    /\ pc' = "object_done"
    /\ UNCHANGED <<bottomVars, script, obj, materials, legVars, holeVars, splitVars, closeVars>>

\* lines 38, 176-180
LegsNextObject ==
    /\ script = "make_legs_black_geometry" /\ pc = "object_done"
    /\ NextObject("bounds")
    /\ UNCHANGED <<bottomVars, script, scene, materials, legVars, holeVars, splitVars, closeVars>>

LegsNext ==
    \/ LegsImport \/ LegsBounds \/ LegsMaterial \/ LegsClassify \/ LegsFallback
    \/ LegsAssign \/ LegsNextObject

(***************************************************************************)
(* split_by_angle.py                                                       *)
(***************************************************************************)
\* the z_threshold values a caller passes: the default 0.5, 0 and 1.5
ZThresholds == {ZThresholdDefault, <<0, 1>>, <<3, 2>>}

\* the height_percent values a caller passes: the default 0.20 and 0.40
HeightPercents == {HeightPercentDefault, 2 * HeightPercentDefault}

\* line 13: the keyword arguments of a call: each z_threshold with the default
\* height_percent, but for the largest, which comes with the other one
SplitArgs ==
    {<<zt, IF zt = <<3, 2>> THEN hp ELSE HeightPercentDefault>> :
        zt \in ZThresholds, hp \in HeightPercents \ {HeightPercentDefault}}

SplitInit ==
    /\ script = "split_by_angle"
    /\ scene \in Scenes(Boxes(Poses, Missings, {{}}, {0}, ImportedSlots))
    /\ materials = ImportedMaterials(scene)
    /\ pc = "import" /\ obj = 0 /\ log = <<>>
    /\ \E args \in SplitArgs : z_threshold = args[1] /\ height_percent = args[2]
    /\ InitLocals /\ uv = <<>>

\* SplitImport as it would be if a scene without meshes went on to the export
SplitImportExportsAnyway ==
    /\ script = "split_by_angle" /\ pc = "import"
    /\ IF scene = <<>>
       THEN pc' = "export" /\ obj' = obj
       ELSE pc' = "bounds" /\ obj' = 1
    /\ UNCHANGED <<bottomVars, script, scene, materials, log, holeVars, legVars, splitVars, closeVars>>

\* lines 34-49: import; no mesh objects: sys.exit(1)
SplitImport ==
    /\ script = "split_by_angle" /\ pc = "import"
    /\ IF scene = <<>>
       THEN pc' = "exit_1" /\ obj' = obj
       ELSE pc' = "bounds" /\ obj' = 1
    /\ UNCHANGED <<bottomVars, script, scene, materials, log, holeVars, legVars, splitVars, closeVars>>

\* lines 74-88: the z bounds of the vertices and the leg height threshold
SplitBounds ==
    /\ script = "split_by_angle" /\ pc = "bounds"
    /\ leg_height_threshold' = LegHeightThreshold(Mesh)
    /\ pc' = "classify"
    /\ UNCHANGED <<bottomVars, script, scene, obj, materials, log, z_threshold, height_percent, legs_faces,
                   fabric_faces,
                   holeVars, legVars, closeVars>>

\* lines 90-118: a face is a leg if it is at the bottom and vertical
SplitClassify ==
    /\ script = "split_by_angle" /\ pc = "classify"
    /\ LET groups == HybridGroups(Mesh, leg_height_threshold, z_threshold)
       IN  /\ legs_faces' = groups.legs_faces
           /\ fabric_faces' = groups.fabric_faces
           /\ pc' = IF Len(groups.legs_faces) = 0 THEN "skip" ELSE "materials"
    /\ Logged(<<"classified", "hybrid">>)
    /\ UNCHANGED <<bottomVars, script, scene, obj, materials, z_threshold, height_percent,
                   leg_height_threshold,
                   holeVars, legVars, closeVars>>

\* lines 120-123: no leg faces: the material split is skipped for this object
SplitSkip ==
    /\ script = "split_by_angle" /\ pc = "skip"
    /\ Logged(<<"skipped">>)
    /\ pc' = "object_done"
    /\ UNCHANGED <<bottomVars, script, scene, obj, materials, holeVars, legVars, splitVars, closeVars>>

\* SplitSlots as it would be if the two materials were appended
SplitSlotsAppended(slots, fabric_mat, legs_mat) == slots \o <<fabric_mat, legs_mat>>

\* lines 125-146: the materials named legs and fabric, made if the file has none
\* lines 148-158: fabric goes to slot 0 and legs to slot 1 of the object
SplitSlots(slots, fabric_mat, legs_mat) ==
    IF Len(slots) = 0 THEN <<fabric_mat, legs_mat>>
    ELSE IF Len(slots) = 1 THEN <<fabric_mat, legs_mat>>
    ELSE [[slots EXCEPT ![1] = fabric_mat] EXCEPT ![2] = legs_mat]

SplitMaterials ==
    /\ script = "split_by_angle" /\ pc = "materials"
    /\ LET legs_mat == IF <<"legs", 0>> \in materials THEN <<"legs", 0>>
                       ELSE NewMaterial(materials, "legs")
           fabric_mat == IF <<"fabric", 0>> \in materials THEN <<"fabric", 0>>
                         ELSE NewMaterial(materials \cup {legs_mat}, "fabric")
       IN  /\ materials' = materials \cup {legs_mat, fabric_mat}
           /\ SetMesh([Mesh EXCEPT !.materials = SplitSlots(@, fabric_mat, legs_mat)])
    /\ pc' = "assign"
    /\ UNCHANGED <<bottomVars, script, obj, log, holeVars, legVars, splitVars, closeVars>>

\* lines 160-174: material index 1 to the leg faces, 0 to the fabric faces
SplitAssign ==
    /\ script = "split_by_angle" /\ pc = "assign"
    /\ SetMesh(AssignMaterial(AssignMaterial(Mesh, legs_faces, 1), fabric_faces, 0))
    /\ Logged(<<"assigned", Len(legs_faces)>>)
    /\ pc' = "object_done"
    /\ UNCHANGED <<bottomVars, script, obj, materials, holeVars, legVars, splitVars, closeVars>>

\* lines 54, 174-180
SplitNextObject ==
    /\ script = "split_by_angle" /\ pc = "object_done"
    /\ NextObject("bounds")
    /\ UNCHANGED <<bottomVars, script, scene, materials, holeVars, legVars, splitVars, closeVars>>

SplitNext ==
    \/ SplitImport \/ SplitBounds \/ SplitClassify \/ SplitSkip \/ SplitMaterials
    \/ SplitAssign \/ SplitNextObject

(***************************************************************************)
(* close_bottom.py                                                         *)
(***************************************************************************)
CloseInit ==
    /\ script = "close_bottom"
    /\ scene \in Scenes(Boxes(Poses, Missings, {{}}, Dups, {<<>>}))
    /\ materials = ImportedMaterials(scene)
    /\ pc = "import" /\ obj = 0 /\ log = <<>>
    /\ z_threshold = ZThresholdDefault /\ height_percent = HeightPercentDefault
    /\ InitLocals /\ uv = <<>>

\* lines 21-35: import; no mesh objects: return False
CloseImport ==
    /\ script = "close_bottom" /\ pc = "import"
    /\ IF scene = <<>>
       THEN pc' = "returned_false" /\ obj' = obj
       ELSE pc' = "bounds" /\ obj' = 1
    /\ UNCHANGED <<bottomVars, script, scene, materials, log, holeVars, legVars, splitVars, closeVars>>

\* lines 45-54 and 68: min_x, max_x and min_y are read here, before the
\* clean-up, and threshold_y is made of them
CloseBounds ==
    /\ script = "close_bottom" /\ pc = "bounds"
    /\ threshold_y' = ThresholdY(Mesh)
    /\ pc' = "clean"
    /\ UNCHANGED <<bottomVars, script, scene, obj, materials, log, bottom_verts, holeVars, legVars, splitVars>>

\* lines 59-62: remove_doubles and normals_make_consistent
CloseClean ==
    /\ script = "close_bottom" /\ pc = "clean"
    /\ LET welded == RemoveDoubles(Mesh, WeldThreshold)
           fixed  == NormalsMakeConsistent(welded)
       IN  /\ SetMesh(fixed)
           /\ log' = log \o << <<"remove_doubles", Len(Mesh.verts) - Len(welded.verts)>>,
                               <<"normals", FlippedCount(welded, fixed)>> >>
    /\ pc' = "select"
    /\ UNCHANGED <<bottomVars, script, obj, materials, holeVars, legVars, splitVars, closeVars>>

\* lines 64-77: the vertices at or under threshold_y are selected
CloseSelect ==
    /\ script = "close_bottom" /\ pc = "select"
    /\ bottom_verts' = SortedSeq({v \in DOMAIN Mesh.verts : IsBottomVert(Mesh, v, threshold_y)})
    /\ Logged(<<"selected", "y">>)
    /\ pc' = "fill"
    /\ UNCHANGED <<bottomVars, script, scene, obj, materials, threshold_y, holeVars, legVars, splitVars>>

\* edge_face_add() on selected vertices: three or more get one face over them,
\* unless a face over exactly those vertices is there already
VertsFaceAdd(m, sel) ==
    IF Len(sel) < 3 \/ FaceExists(m, Range(sel)) THEN m
    ELSE [m EXCEPT !.faces = Append(@, NewFace(sel))]

\* lines 79-91: with bottom vertices, a face is added and normals recalculated
CloseFill ==
    /\ script = "close_bottom" /\ pc = "fill"
    /\ IF Len(bottom_verts) > 0
       THEN LET filled == VertsFaceAdd(Mesh, bottom_verts)
                fixed  == NormalsMakeConsistent(filled)
            IN  /\ SetMesh(fixed)
                /\ log' = log \o << <<"edge_face_add", Len(filled.faces) - Len(Mesh.faces)>>,
                                    <<"normals", FlippedCount(filled, fixed)>> >>
       ELSE UNCHANGED <<scene, log>>
    /\ pc' = "object_done"
    /\ UNCHANGED <<bottomVars, script, obj, materials, holeVars, legVars, splitVars, closeVars>>

\* lines 37, 93-96
CloseNextObject ==
    /\ script = "close_bottom" /\ pc = "object_done"
    /\ NextObject("bounds")
    /\ UNCHANGED <<bottomVars, script, scene, materials, holeVars, legVars, splitVars, closeVars>>

CloseNext ==
    \/ CloseImport \/ CloseBounds \/ CloseClean \/ CloseSelect \/ CloseFill
    \/ CloseNextObject

(***************************************************************************)
(* fix_bottom_normals.py, fix_bottom_uvs.py, fix_bottom_hole.py            *)
(*                                                                         *)
(* The UV layer of an object is one tag per face: "none" while the mesh    *)
(* has no UV layer, "imported" for coordinates the file brought, "zero"    *)
(* for the coordinates of a layer that verify() created, "smart" and       *)
(* "view" for coordinates a projection wrote.  Whether a projection        *)
(* operator raises is the host's choice.                                   *)
(***************************************************************************)
\* threshold_y = min_y + (max_y - min_y) * 0.15, in thousandths
BottomThresholdY(m) == 1000 * BoundMin(m, "y") + 150 * Width(m, "y")

\* face_center.y <= threshold_y
InBottomBand(m, f, threshold1000) ==
    1000 * CenterCoordSum(m, f, "y") <= Len(m.faces[f].verts) * threshold1000

\* world_normal.y > 0
PointsUp(m, f) == FaceNormal(m, f)[2] > 0

BottomFaces(m, threshold1000) ==
    SortedSeq({f \in DOMAIN m.faces : InBottomBand(m, f, threshold1000)})

\* InvertedFaces as it would be without the test of the normal
InvertedFacesAnyNormal(m, threshold1000) == BottomFaces(m, threshold1000)

\* fix_bottom_normals.py lines 78-89: the bottom faces whose normal points up
InvertedFaces(m, threshold1000) ==
    SortedSeq({f \in DOMAIN m.faces :
                  InBottomBand(m, f, threshold1000) /\ PointsUp(m, f)})

\* the meshes the bottom scripts are run on: y-up boxes, the cube, the stepped
\* mesh and the plates
BottomMeshes(dups) ==
    Boxes({[dim |-> <<20, 80, 4, 12>>, up |-> "y"]}, {{}, {1}, {1, 10}}, Flips, dups, {<<>>})
        \cup {Cube("y"), Stepped("y"), Plates("y")}

BottomInit(name, dups) ==
    /\ script = name
    /\ scene \in Scenes(BottomMeshes(dups))
    /\ materials = ImportedMaterials(scene)
    /\ pc = "import" /\ obj = 0 /\ log = <<>>
    /\ z_threshold = ZThresholdDefault /\ height_percent = HeightPercentDefault
    /\ InitLocals

BottomNormalsInit == BottomInit("fix_bottom_normals", Dups) /\ uv = <<>>

\* lines 26-36: import; no mesh objects: return False
BottomNormalsImport ==
    /\ script = "fix_bottom_normals" /\ pc = "import"
    /\ IF scene = <<>>
       THEN pc' = "returned_false" /\ obj' = obj
       ELSE pc' = "bounds" /\ obj' = 1
    /\ UNCHANGED <<bottomVars, script, scene, materials, log, holeVars, legVars, splitVars, closeVars>>

\* lines 46-51 and 73: min_y and max_y are read before the clean-up, and
\* threshold_y is made of them
BottomNormalsBounds ==
    /\ script = "fix_bottom_normals" /\ pc = "bounds"
    /\ threshold_y' = BottomThresholdY(Mesh)
    /\ pc' = "clean"
    /\ UNCHANGED <<bottomVars, script, scene, obj, materials, log, bottom_verts, holeVars, legVars, splitVars>>

\* lines 56-60: remove_doubles, delete_loose
BottomNormalsClean ==
    /\ script = "fix_bottom_normals" /\ pc = "clean"
    /\ LET welded == RemoveDoubles(Mesh, WeldThreshold)
       IN  /\ SetMesh(DeleteLoose(welded))
           /\ Logged(<<"remove_doubles", Len(Mesh.verts) - Len(welded.verts)>>)
    /\ pc' = "recalc"
    /\ UNCHANGED <<bottomVars, script, obj, materials, holeVars, legVars, splitVars, closeVars>>

\* lines 62-65: normals_make_consistent on the whole mesh
BottomNormalsRecalc ==
    /\ script = "fix_bottom_normals" /\ pc = "recalc"
    /\ LET fixed == NormalsMakeConsistent(Mesh)
       IN  /\ SetMesh(fixed)
           /\ Logged(<<"normals", FlippedCount(Mesh, fixed)>>)
    /\ pc' = "select"
    /\ UNCHANGED <<bottomVars, script, obj, materials, holeVars, legVars, splitVars, closeVars>>

\* lines 67-92: bottom_faces and inverted_faces; the inverted ones are selected
BottomNormalsSelect ==
    /\ script = "fix_bottom_normals" /\ pc = "select"
    /\ bottom_faces' = BottomFaces(Mesh, threshold_y)
    /\ inverted_faces' = InvertedFaces(Mesh, threshold_y)
    /\ Logged(<<"bottom_faces", Len(BottomFaces(Mesh, threshold_y))>>)
    /\ pc' = "flip"
    /\ UNCHANGED <<script, scene, obj, materials, bottom_faces_count, uv,
                   holeVars, legVars, splitVars, closeVars>>

\* lines 94-99: flip_normals on the selection when there are inverted faces
BottomNormalsFlip ==
    /\ script = "fix_bottom_normals" /\ pc = "flip"
    /\ IF Len(inverted_faces) > 0
       THEN SetMesh(FlipFaces(Mesh, Range(inverted_faces)))
       ELSE UNCHANGED scene
    /\ Logged(<<"flip_normals", Len(inverted_faces)>>)
    /\ pc' = "final"
    /\ UNCHANGED <<bottomVars, script, obj, materials, holeVars, legVars, splitVars, closeVars>>

\* lines 101-110: normals_make_consistent once more, smooth shading
BottomNormalsFinal ==
    /\ script = "fix_bottom_normals" /\ pc = "final"
    /\ LET fixed == NormalsMakeConsistent(Mesh)
       IN  /\ SetMesh(fixed)
           /\ Logged(<<"normals", FlippedCount(Mesh, fixed)>>)
    /\ pc' = "object_done"
    /\ UNCHANGED <<bottomVars, script, obj, materials, holeVars, legVars, splitVars, closeVars>>

\* lines 38, 112
BottomNormalsNextObject ==
    /\ script = "fix_bottom_normals" /\ pc = "object_done"
    /\ NextObject("bounds")
    /\ UNCHANGED <<bottomVars, script, scene, materials, holeVars, legVars, splitVars, closeVars>>

BottomNormalsNext ==
    \/ BottomNormalsImport \/ BottomNormalsBounds \/ BottomNormalsClean
    \/ BottomNormalsRecalc \/ BottomNormalsSelect \/ BottomNormalsFlip
    \/ BottomNormalsFinal \/ BottomNormalsNextObject

\* the UV layers an import can bring: the meshes of a file come all without, or
\* all with, a layer
ImportedUvs(sc) ==
    { [o \in DOMAIN sc |-> [f \in DOMAIN sc[o].faces |-> tag]] : tag \in {"none", "imported"} }

\* fix_bottom_uvs.py line 59: uv.verify() makes a layer where there is none
Verify(uvs) == [f \in DOMAIN uvs |-> IF uvs[f] = "none" THEN "zero" ELSE uvs[f]]

\* a projection operator that succeeds writes the UVs of the selected faces
Project(uvs, faces, tag) ==
    [f \in DOMAIN uvs |-> IF f \in Range(faces) THEN tag ELSE uvs[f]]

\* RaisedProjection as it would be if an operator that raises had already
\* written the first selected face
RaisedProjectionPartial(uvs, faces) == Project(uvs, <<Head(faces)>>, "partial")

\* a projection operator that raises leaves the UV layer as it found it
RaisedProjection(uvs, faces) == uvs

BottomUvsInit ==
    /\ BottomInit("fix_bottom_uvs", {0})
    /\ uv \in ImportedUvs(scene)

\* lines 27-37: import; no mesh objects: return False
BottomUvsImport ==
    /\ script = "fix_bottom_uvs" /\ pc = "import"
    /\ IF scene = <<>>
       THEN pc' = "returned_false" /\ obj' = obj
       ELSE pc' = "select" /\ obj' = 1
    /\ UNCHANGED <<bottomVars, script, scene, materials, log, holeVars, legVars, splitVars, closeVars>>

\* lines 47-78: bounds, the UV layer, the faces at or under threshold_y selected
BottomUvsSelect ==
    /\ script = "fix_bottom_uvs" /\ pc = "select"
    /\ threshold_y' = BottomThresholdY(Mesh)
    /\ uv' = [uv EXCEPT ![obj] = Verify(@)]
    /\ bottom_faces' = BottomFaces(Mesh, BottomThresholdY(Mesh))
    /\ bottom_faces_count' = Len(BottomFaces(Mesh, BottomThresholdY(Mesh)))
    /\ log' = log \o << <<"bottom_faces", Len(BottomFaces(Mesh, BottomThresholdY(Mesh)))>>,
                        <<"uv", Verify(uv[obj])>> >>
    /\ pc' = IF Len(BottomFaces(Mesh, BottomThresholdY(Mesh))) > 0 THEN "smart_project"
             ELSE "normals"
    /\ UNCHANGED <<script, scene, obj, materials, inverted_faces, bottom_verts,
                   holeVars, legVars, splitVars>>

\* BottomUvsSmartProject as it would be with project_from_view outside the
\* except clause, run after smart_project whether or not it raised
BottomUvsSmartProjectThenView ==
    /\ script = "fix_bottom_uvs" /\ pc = "smart_project"
    /\ \E raises \in BOOLEAN :
           IF raises
           THEN /\ uv' = [uv EXCEPT ![obj] = RaisedProjection(@, bottom_faces)]
                /\ Logged(<<"smart_project", "failed">>)
           ELSE /\ uv' = [uv EXCEPT ![obj] = Project(@, bottom_faces, "smart")]
                /\ Logged(<<"smart_project", "applied">>)
    /\ pc' = "project_from_view"
    /\ UNCHANGED <<script, scene, obj, materials, bottom_faces, inverted_faces,
                   bottom_faces_count, holeVars, legVars, splitVars, closeVars>>

\* lines 80-94: smart_project on the selection; it may raise
BottomUvsSmartProject ==
    /\ script = "fix_bottom_uvs" /\ pc = "smart_project"
    /\ \E raises \in BOOLEAN :
           IF raises
           THEN /\ uv' = [uv EXCEPT ![obj] = RaisedProjection(@, bottom_faces)]
                /\ Logged(<<"smart_project", "failed">>)
                /\ pc' = "project_from_view"
           ELSE /\ uv' = [uv EXCEPT ![obj] = Project(@, bottom_faces, "smart")]
                /\ Logged(<<"smart_project", "applied">>)
                /\ pc' = "normals"
    /\ UNCHANGED <<script, scene, obj, materials, bottom_faces, inverted_faces,
                   bottom_faces_count, holeVars, legVars, splitVars, closeVars>>

\* lines 96-106: project_from_view after smart_project raised; it may raise too
BottomUvsProjectFromView ==
    /\ script = "fix_bottom_uvs" /\ pc = "project_from_view"
    /\ \E raises \in BOOLEAN :
           IF raises
           THEN /\ uv' = [uv EXCEPT ![obj] = RaisedProjection(@, bottom_faces)]
                /\ Logged(<<"project_from_view", "failed">>)
           ELSE /\ uv' = [uv EXCEPT ![obj] = Project(@, bottom_faces, "view")]
                /\ Logged(<<"project_from_view", "applied">>)
    /\ pc' = "normals"
    /\ UNCHANGED <<script, scene, obj, materials, bottom_faces, inverted_faces,
                   bottom_faces_count, holeVars, legVars, splitVars, closeVars>>

\* lines 108-116: normals_make_consistent on the whole mesh
BottomUvsNormals ==
    /\ script = "fix_bottom_uvs" /\ pc = "normals"
    /\ LET fixed == NormalsMakeConsistent(Mesh)
       IN  /\ SetMesh(fixed)
           /\ Logged(<<"normals", FlippedCount(Mesh, fixed)>>)
    /\ pc' = "object_done"
    /\ UNCHANGED <<bottomVars, script, obj, materials, holeVars, legVars, splitVars, closeVars>>

\* lines 39, 118
BottomUvsNextObject ==
    /\ script = "fix_bottom_uvs" /\ pc = "object_done"
    /\ NextObject("select")
    /\ UNCHANGED <<bottomVars, script, scene, materials, holeVars, legVars, splitVars, closeVars>>

BottomUvsNext ==
    \/ BottomUvsImport \/ BottomUvsSelect \/ BottomUvsSmartProject
    \/ BottomUvsProjectFromView \/ BottomUvsNormals \/ BottomUvsNextObject

BottomHoleInit == BottomInit("fix_bottom_hole", Dups) /\ uv = <<>>

\* lines 28-38: import; no mesh objects: return False
BottomHoleImport ==
    /\ script = "fix_bottom_hole" /\ pc = "import"
    /\ IF scene = <<>>
       THEN pc' = "returned_false" /\ obj' = obj
       ELSE pc' = "clean" /\ obj' = 1
    /\ UNCHANGED <<bottomVars, script, scene, materials, log, holeVars, legVars, splitVars, closeVars>>

\* fix_bottom_hole.py lines 51-61: remove_doubles, normals_make_consistent
BottomHoleClean ==
    /\ script = "fix_bottom_hole" /\ pc = "clean"
    /\ LET welded == RemoveDoubles(Mesh, WeldThreshold)
           fixed  == NormalsMakeConsistent(welded)
       IN  /\ SetMesh(fixed)
           /\ log' = log \o << <<"remove_doubles", Len(Mesh.verts) - Len(welded.verts)>>,
                               <<"normals", FlippedCount(welded, fixed)>> >>
    /\ pc' = "scan"
    /\ UNCHANGED <<bottomVars, script, obj, materials, holeVars, legVars, splitVars, closeVars>>

\* lines 63-78: select_non_manifold; selected_edges
BottomHoleScan ==
    /\ script = "fix_bottom_hole" /\ pc = "scan"
    /\ selected_edges' = Cardinality(BoundaryEdges(Mesh))
    /\ Logged(<<"scan", Cardinality(BoundaryEdges(Mesh))>>)
    /\ pc' = "fill"
    /\ UNCHANGED <<bottomVars, script, scene, obj, materials, pass_num, remaining_holes,
                   legVars, splitVars, closeVars>>

\* lines 80-98: with boundary edges, edge_face_add and normals_make_consistent
BottomHoleFill ==
    /\ script = "fix_bottom_hole" /\ pc = "fill"
    /\ IF selected_edges > 0
       THEN LET filled == EdgeFaceAdd(Mesh)
                fixed  == NormalsMakeConsistent(filled)
            IN  /\ SetMesh(fixed)
                /\ log' = log \o << <<"edge_face_add", Len(filled.faces) - Len(Mesh.faces)>>,
                                    <<"normals", FlippedCount(filled, fixed)>> >>
       ELSE UNCHANGED <<scene, log>>
    /\ pc' = "object_done"
    /\ UNCHANGED <<bottomVars, script, obj, materials, holeVars, legVars, splitVars, closeVars>>

\* lines 40, 98
BottomHoleNextObject ==
    /\ script = "fix_bottom_hole" /\ pc = "object_done"
    /\ NextObject("clean")
    /\ UNCHANGED <<bottomVars, script, scene, materials, holeVars, legVars, splitVars, closeVars>>

BottomHoleNext ==
    \/ BottomHoleImport \/ BottomHoleClean \/ BottomHoleScan \/ BottomHoleFill
    \/ BottomHoleNextObject

(***************************************************************************)
(* Specifications.                                                         *)
(***************************************************************************)
ClassifyInit == LegsInit \/ SplitInit \/ CloseInit

ClassifyNext == LegsNext \/ SplitNext \/ CloseNext \/ Export

SpecClassify == ClassifyInit /\ [][ClassifyNext]_vars

BottomScriptsInit == BottomNormalsInit \/ BottomUvsInit \/ BottomHoleInit

BottomScriptsNext == BottomNormalsNext \/ BottomUvsNext \/ BottomHoleNext \/ Export

SpecBottom == BottomScriptsInit /\ [][BottomScriptsNext]_vars

RepairInit == HolesInit \/ BottomScriptsInit

RepairNext == HolesNext \/ BottomScriptsNext

SpecRepair == RepairInit /\ [][RepairNext]_vars

Init == HolesInit \/ ClassifyInit \/ BottomScriptsInit

Next == HolesNext \/ ClassifyNext \/ BottomScriptsNext

Spec == Init /\ [][Next]_vars

-----------------------------------------------------------------------------
\* Properties

\* the events of one kind in the log of the current object
Events(kinds) == SelectSeq(log, LAMBDA e : e[1] \in kinds)

Scans == Events({"scan"})

Fills == Events({"fill_grid", "edge_face_add"})

WeldThresholds == {WeldThreshold, 2 * WeldThreshold}

ValidMesh(m) ==
    \A f \in DOMAIN m.faces :
        /\ Range(m.faces[f].verts) \subseteq DOMAIN m.verts
        /\ Cardinality(Range(m.faces[f].verts)) >= 3
        /\ Cardinality(Range(m.faces[f].verts)) = Len(m.faces[f].verts)

IsPartition(a, b, all) ==
    /\ Range(a) \cap Range(b) = {}
    /\ Range(a) \cup Range(b) = all
    /\ Len(a) + Len(b) = Cardinality(all)

\* C1: merging vertices by distance a second time with the same threshold on an
\* unchanged mesh merges nothing and leaves the mesh as the first merge left it;
\* the script's own final merge removes 0 vertices when no fill added geometry.
C1_WeldIdempotent ==
    script = "fix_holes_aggressive" =>
        /\ pc = "clean" =>
               \A t \in WeldThresholds :
                   LET w == RemoveDoubles(Mesh, t)
                   IN  /\ RemoveDoubles(w, t) = w
                       /\ MergedCount(w, t) = 0
        /\ pc = "final" =>
               LET w == RemoveDoubles(Mesh, WeldThreshold)
               IN  RemoveDoubles(w, WeldThreshold) = w
        /\ pc = "delete_loose" => MergedCount(Mesh, WeldThreshold) = 0
        /\ (pc = "check" /\ \A i \in DOMAIN Fills : Fills[i][2] = 0) =>
               log[Len(log) - 1] = <<"remove_doubles", 0>>

\* the first merge removed vertices and left two vertices a chain step apart
C1_Witness ==
    /\ script = "fix_holes_aggressive"
    /\ pc = "delete_loose"
    /\ log[1][1] = "remove_doubles" /\ log[1][2] > 0
    /\ \E i, j \in DOMAIN Mesh.verts :
           i # j /\ Dist2(Mesh.verts[i], Mesh.verts[j]) <= 4

\* C2: over the passes of one object the number of boundary edges counted by
\* the scan never rises.
C2_BoundaryNeverRises ==
    script = "fix_holes_aggressive" =>
        \A i, j \in DOMAIN Scans : i < j => Scans[j][2] <= Scans[i][2]

\* a scan found boundary edges, edge_face_add made faces, the next scan found fewer
C2_Witness ==
    /\ script = "fix_holes_aggressive"
    /\ \E i, j, k \in DOMAIN log :
           /\ i < j /\ j < k
           /\ log[i][1] = "scan" /\ log[i][2] > 0
           /\ log[j][1] = "edge_face_add" /\ log[j][2] > 0
           /\ log[k][1] = "scan" /\ log[k][2] < log[i][2]

\* C3: after classification every face is in exactly one of the two groups
\* (leg/body for the position test, legs/fabric for the hybrid test).
C3_GroupsPartition ==
    /\ (script = "make_legs_black_geometry"
            /\ pc \in {"fallback", "assign", "object_done", "crashed"}) =>
           IsPartition(leg_faces, body_faces, DOMAIN Mesh.faces)
    /\ (script = "split_by_angle"
            /\ pc \in {"skip", "materials", "assign", "object_done"}) =>
           IsPartition(legs_faces, fabric_faces, DOMAIN Mesh.faces)

\* the position test has put faces in both groups
C3_Witness ==
    /\ script = "make_legs_black_geometry"
    /\ pc = "assign"
    /\ Len(leg_faces) > 0
    /\ Len(body_faces) > 0

C5_EmptyLegsReclassified ==
    /\ (script = "make_legs_black_geometry"
            /\ pc \in {"assign", "object_done", "crashed"}
            /\ <<"classified", "position">> \in Range(log)
            /\ PositionGroups(Mesh, vertical_axis, leg_threshold).leg_faces = <<>>) =>
           /\ pc # "crashed"
           /\ <<"classified", "fallback">> \in Range(log)
    /\ (script = "split_by_angle"
            /\ pc = "object_done"
            /\ <<"classified", "hybrid">> \in Range(log)
            /\ legs_faces = <<>>) =>
           <<"classified", "fallback">> \in Range(log)

\* C6: the faces the hybrid test calls legs are among the faces the position
\* test with the same threshold calls legs.
C6_HybridWithinPosition ==
    (script = "split_by_angle"
         /\ pc \in {"skip", "materials", "assign", "object_done"}) =>
        Range(legs_faces) \subseteq
            Range(PositionGroups(Mesh, "z", leg_height_threshold).leg_faces)

\* the hybrid test found legs, and the position test alone would find more
C6_Witness ==
    /\ script = "split_by_angle"
    /\ pc = "materials"
    /\ Len(legs_faces) > 0
    /\ Range(legs_faces) #
           Range(PositionGroups(Mesh, "z", leg_height_threshold).leg_faces)

\* C7: the detected vertical axis is an axis of smallest bounding-box extent.
C7_SmallestExtent ==
    (script = "make_legs_black_geometry" /\ pc = "material") =>
        \A a \in Axes : Width(Mesh, vertical_axis) <= Width(Mesh, a)

\* C8 as stated: the loop ends after at most 3 passes and ends early as soon as
\* a scan finds no boundary edge or a pass adds no face.
C8_StopsOnNoProgress ==
    script = "fix_holes_aggressive" =>
        /\ Len(Fills) <= MaxPasses
        /\ \A i, j \in DOMAIN log :
               (i < j /\ log[i] = <<"scan", 0>>) =>
                   log[j][1] \notin {"scan", "fill_grid", "edge_face_add"}
        /\ \A i, j \in DOMAIN Fills : (i < j) => Fills[i][2] > 0

\* C8 amended: the loop ends after at most 3 passes; it ends early only when a
\* scan finds no boundary edge, and a pass that adds no face is followed by
\* another pass while fewer than 3 have run.
C8_StopsOnZeroScanOnly ==
    script = "fix_holes_aggressive" =>
        /\ Len(Fills) <= MaxPasses
        /\ Len(Scans) <= MaxPasses
        /\ \A i, j \in DOMAIN log :
               (i < j /\ log[i] = <<"scan", 0>>) =>
                   log[j][1] \notin {"scan", "fill_grid", "edge_face_add"}
        /\ \A i \in DOMAIN log :
               log[i][1] \in {"fill_grid", "edge_face_add"} =>
                   (log[i - 1][1] = "scan" /\ log[i - 1][2] > 0)
        /\ pc \in {"final", "check", "object_done"} =>
               \/ Len(Fills) = MaxPasses
               \/ Scans[Len(Scans)] = <<"scan", 0>>

\* three passes ran on one object and none of them added a face
C8_Witness ==
    /\ script = "fix_holes_aggressive"
    /\ pc = "check"
    /\ Len(Fills) = MaxPasses
    /\ \A i \in DOMAIN Fills : Fills[i][2] = 0

\* C9: recalculating normals on a mesh whose normals were just recalculated
\* reverses no face.
C9_NormalsIdempotent ==
    script = "fix_holes_aggressive" =>
        /\ pc \in {"scan", "check"} => FlippedBy(Mesh) = {}
        /\ pc = "clean" =>
               LET n == NormalsMakeConsistent(Mesh)
               IN  NormalsMakeConsistent(n) = n

\* the recalculation before the first scan reversed at least one face
C9_Witness ==
    /\ script = "fix_holes_aggressive"
    /\ pc = "scan"
    /\ \E i \in DOMAIN log : log[i][1] = "normals" /\ log[i][2] > 0

\* C10: each classifier's threshold is the minimum along the vertical axis plus
\* the stated fraction of the extent along that same axis, and an element is in
\* the bottom group exactly when its coordinate is at or below the threshold.
C10_ThresholdOnVerticalAxis ==
    /\ (script = "make_legs_black_geometry" /\ pc \in {"fallback", "assign"}) =>
           /\ leg_threshold = 1000 * BoundMin(Mesh, vertical_axis)
                                  + 185 * Width(Mesh, vertical_axis)
           /\ \A f \in DOMAIN Mesh.faces :
                  f \in Range(leg_faces) <=>
                      1000 * CenterCoordSum(Mesh, f, vertical_axis)
                          <= Len(Mesh.faces[f].verts) * leg_threshold
    /\ (script = "split_by_angle" /\ pc \in {"skip", "materials"}) =>
           /\ leg_height_threshold = 1000 * BoundMin(Mesh, "z") + 200 * Width(Mesh, "z")
           /\ \A f \in DOMAIN Mesh.faces :
                  IsVertical(Mesh, f, z_threshold) =>
                      (f \in Range(legs_faces) <=>
                           1000 * CenterCoordSum(Mesh, f, "z")
                               <= Len(Mesh.faces[f].verts) * leg_height_threshold)
    /\ (script = "close_bottom" /\ pc = "clean") =>
           threshold_y = 1000 * BoundMin(Mesh, "y") + 50 * Width(Mesh, "y")
    /\ (script = "close_bottom" /\ pc = "fill") =>
           \A v \in DOMAIN Mesh.verts :
               v \in Range(bottom_verts) <=> 1000 * Mesh.verts[v][2] <= threshold_y

\* the faces the flip pass is to reverse, from the mesh as the pass finds it
UpwardBottomFaces(m) ==
    {f \in DOMAIN m.faces :
        /\ 1000 * CenterCoordSum(m, f, "y")
               <= Len(m.faces[f].verts) * (1000 * BoundMin(m, "y") + 150 * Width(m, "y"))
        /\ FaceNormal(m, f)[2] > 0}

\* C11: the flip pass reverses the winding of exactly the faces in the bottom
\* band (center at or under min + 0.15 * extent) whose normal points up, and
\* leaves every other face, every vertex and every material index as it was;
\* with no such face the mesh is unchanged.
C11_FlipsExactlyUpwardBottom ==
    [][(script = "fix_bottom_normals" /\ pc = "flip") =>
          /\ scene'[obj].verts = Mesh.verts
          /\ scene'[obj].materials = Mesh.materials
          /\ DOMAIN scene'[obj].faces = DOMAIN Mesh.faces
          /\ \A f \in DOMAIN Mesh.faces :
                 /\ scene'[obj].faces[f].material_index = Mesh.faces[f].material_index
                 /\ scene'[obj].faces[f].verts =
                        IF f \in UpwardBottomFaces(Mesh)
                        THEN Reverse(Mesh.faces[f].verts)
                        ELSE Mesh.faces[f].verts
          /\ (UpwardBottomFaces(Mesh) = {} => scene' = scene)]_vars

\* the flip pass has reversed some bottom faces and left other bottom faces alone
C11_Witness ==
    /\ script = "fix_bottom_normals"
    /\ pc = "final"
    /\ log[Len(log)][1] = "flip_normals"
    /\ log[Len(log)][2] > 0
    /\ Len(bottom_faces) > Len(inverted_faces)

EnsuredByName(before, after, name, index) ==
    IF \E i \in DOMAIN before : before[i] = <<name, 0>>
    THEN /\ after = before
         /\ before[index + 1] = <<name, 0>>
    ELSE /\ Len(after) = Len(before) + 1
         /\ SubSeq(after, 1, Len(before)) = before
         /\ index = Len(before)
         /\ after[index + 1][1] = name

\* C13: ensuring a material by name returns the index of a slot that already
\* holds the name and leaves the slots unchanged, and otherwise appends exactly
\* one slot and returns its index.
C13_EnsureMaterialByName ==
    [][/\ (script = "make_legs_black_geometry" /\ pc = "material") =>
              EnsuredByName(Mesh.materials, scene'[obj].materials, "Black_Legs",
                            black_mat_index')
       /\ (script = "split_by_angle" /\ pc = "materials") =>
              \E mid \in {Mesh.materials, Append(Mesh.materials, <<"fabric", 0>>)} :
                  /\ EnsuredByName(Mesh.materials, mid, "fabric", 0)
                  /\ EnsuredByName(mid, scene'[obj].materials, "legs", 1)]_vars

\* C14: the assignment stage sets the material index of every face of the
\* classified set to the given index and leaves the material index of every
\* other face, and every winding, as it was.
C14_AssignOnlyClassified ==
    [][/\ (script = "make_legs_black_geometry" /\ pc = "assign") =>
              /\ DOMAIN scene'[obj].faces = DOMAIN Mesh.faces
              /\ \A f \in DOMAIN Mesh.faces :
                     /\ scene'[obj].faces[f].verts = Mesh.faces[f].verts
                     /\ scene'[obj].faces[f].material_index =
                            IF f \in Range(leg_faces) THEN black_mat_index
                            ELSE Mesh.faces[f].material_index
       /\ (script = "split_by_angle" /\ pc = "assign") =>
              /\ DOMAIN scene'[obj].faces = DOMAIN Mesh.faces
              /\ \A f \in DOMAIN Mesh.faces :
                     /\ scene'[obj].faces[f].verts = Mesh.faces[f].verts
                     /\ scene'[obj].faces[f].material_index =
                            IF f \in Range(legs_faces) THEN 1
                            ELSE IF f \in Range(fabric_faces) THEN 0
                            ELSE Mesh.faces[f].material_index]_vars

\* the black material went to the leg faces of a mesh that has body faces too,
\* which kept another index
C14_Witness ==
    /\ script = "make_legs_black_geometry"
    /\ pc = "object_done"
    /\ Len(leg_faces) > 0 /\ Len(body_faces) > 0
    /\ \A i \in DOMAIN leg_faces : Mesh.faces[leg_faces[i]].material_index = black_mat_index
    /\ \A i \in DOMAIN body_faces : Mesh.faces[body_faces[i]].material_index # black_mat_index

\* where a run that found no mesh objects stops
Stopped == {"returned_false", "exit_1"}

\* C15: with no mesh object in the loaded scene the only step a run takes is
\* the one that reports and stops: no stage runs, scene and materials are
\* unchanged, and nothing is exported.
C15_EmptySceneStops ==
    [][scene = <<>> =>
          /\ pc = "import"
          /\ pc' \in Stopped
          /\ scene' = scene /\ materials' = materials
          /\ log' = <<>> /\ obj' = 0]_vars

\* a run on a scene without meshes has stopped
C15_Witness ==
    /\ scene = <<>>
    /\ pc \in Stopped
    /\ script \in {"fix_holes_aggressive", "split_by_angle", "make_legs_black_geometry"}

\* the scene is the one mesh that was imported as the open-bottomed cube
WasOpenCube(up) ==
    /\ Len(scene) = 1
    /\ scene[1].verts = OpenCube(up).verts
    /\ Len(scene[1].faces) >= 5
    /\ \A f \in 1..5 : Range(scene[1].faces[f].verts) = Range(OpenCube(up).faces[f].verts)

\* face f of m points away from the center of the cube of side 16
AwayFromCubeCenter(m, f) ==
    VDot(VSub(VScale(2, CenterSum(m, f)),
              VScale(Len(m.faces[f].verts), <<16, 16, 16>>)),
         FaceNormal(m, f)) > 0

\* C16: the cube that lacks the face at the minimum of its vertical axis ends
\* the hole filling with 6 faces on its 8 vertices and no boundary edge, within
\* the 3 passes, and the new face points away from the center of the cube.
C16_OpenCubeClosed ==
    \A up \in {"y", "z"} :
        (/\ script \in {"fix_holes_aggressive", "fix_bottom_hole"}
         /\ WasOpenCube(up)
         /\ pc \in {"object_done", "export", "done"}) =>
            /\ Len(scene[1].verts) = 8
            /\ Len(scene[1].faces) = 6
            /\ BoundaryEdges(scene[1]) = {}
            /\ Range(scene[1].faces[6].verts) = Range(Cube(up).faces[1].verts)
            /\ AwayFromCubeCenter(scene[1], 6)
            /\ Len(Fills) = 1
            /\ script = "fix_holes_aggressive" => remaining_holes = 0

\* fix_holes_aggressive has closed the open cube and exported it
C16_Witness ==
    /\ script = "fix_holes_aggressive"
    /\ WasOpenCube("z")
    /\ pc = "done"
    /\ Len(scene[1].faces) = 6
    /\ \E i \in DOMAIN log : log[i][1] = "fill_grid" /\ log[i][2] = 1

\* a closed mesh, wound outwards, without loose or near-duplicate vertices
GoodMesh(m) ==
    /\ m.faces # <<>>
    /\ \A e \in AllEdges(m) : Cardinality(FacesOfEdge(m, e)) = 2
    /\ UsedVerts(m) = DOMAIN m.verts
    /\ MergedCount(m, WeldThreshold) = 0
    /\ FlippedBy(m) = {}

\* the events a step has added to the log
NewEvents == IF Len(log') > Len(log) THEN SubSeq(log', Len(log) + 1, Len(log')) ELSE <<>>

\* C17: on a closed, outward-wound mesh without duplicate or loose vertices no
\* step of the pipeline changes a vertex, a face or a winding, no fill runs,
\* and every count reported (merged vertices, boundary edges, flipped normals,
\* remaining holes) is 0.
C17_GoodMeshUntouched ==
    [][(/\ script \in {"fix_holes_aggressive", "fix_bottom_normals"}
        /\ obj \in DOMAIN scene
        /\ GoodMesh(Mesh)) =>
           /\ scene' = scene
           /\ \A i \in DOMAIN NewEvents :
                  /\ NewEvents[i][1] \notin {"fill_grid", "edge_face_add"}
                  /\ NewEvents[i][1] \in {"remove_doubles", "normals", "scan",
                                          "flip_normals", "remaining"} =>
                         NewEvents[i][2] = 0]_vars

Kind(i) == log[i][1]

FillKinds == {"fill_grid", "edge_face_add"}

C19_StageOrdering ==
    script = "fix_holes_aggressive" =>
        /\ \A i \in DOMAIN log :
               Kind(i) = "scan" => \E j \in 1..(i - 1) : Kind(j) = "remove_doubles"
        /\ \A k \in DOMAIN log : \A i \in DOMAIN log :
               (Kind(k) \in FillKinds /\ Kind(i) = "scan" /\ k < i)
                   => \E j \in (k + 1)..(i - 1) : Kind(j) = "normals"
        /\ \A r \in DOMAIN log :
               Kind(r) = "remaining" =>
                   /\ r >= 3
                   /\ Kind(r - 2) = "remove_doubles"
                   /\ Kind(r - 1) = "normals"
                   /\ \A i \in DOMAIN log :
                          Kind(i) \in FillKinds \cup {"scan"} => i < r - 2

\* a mesh that was filled, scanned again after the fill and counted at the end
C19_Witness ==
    /\ script = "fix_holes_aggressive"
    /\ Len(log) > 0 /\ Kind(Len(log)) = "remaining"
    /\ \E k \in DOMAIN log : \E i \in DOMAIN log :
           Kind(k) \in FillKinds /\ log[k][2] > 0 /\ Kind(i) = "scan" /\ k < i

(***************************************************************************)
(* C20.  Fallback chains stop at the first success.  A hole-fill pass logs *)
(* one fill event: fill_grid when fill_grid applies, edge_face_add only    *)
(* when it raised, and the mesh after the pass is the result of that one   *)
(* strategy with its normals recalculated.  In fix_bottom_uvs the step     *)
(* after smart_project is project_from_view only when smart_project        *)
(* raised, and a projection that was applied is the last one of the mesh.  *)
(***************************************************************************)
FillPass ==
    /\ script = "fix_holes_aggressive" /\ pc = "fill" /\ selected_edges > 0
    /\ pc' \in {"scan", "final"}

ProjectKinds == {"smart_project", "project_from_view"}

C20_FirstSuccessShortCircuits ==
    [][ /\ FillPass =>
            /\ Len(log') = Len(log) + 2
            /\ log'[Len(log) + 1][1] =
                   (IF GridFillApplies(Mesh) THEN "fill_grid" ELSE "edge_face_add")
            /\ log'[Len(log) + 2][1] = "normals"
            /\ scene'[obj] = NormalsMakeConsistent(IF GridFillApplies(Mesh)
                                                    THEN FillGrid(Mesh)
                                                    ELSE EdgeFaceAdd(Mesh))
        /\ (script = "fix_bottom_uvs" /\ log' # log /\ Len(log') > 0) =>
            /\ log'[Len(log')][1] = "project_from_view"
                   => /\ Len(log') >= 2
                      /\ log'[Len(log') - 1] = <<"smart_project", "failed">>
            /\ \A i \in 1..(Len(log') - 1) :
                   (log'[i][1] \in ProjectKinds /\ log'[i][2] = "applied")
                       => \A j \in (i + 1)..Len(log') : log'[j][1] \notin ProjectKinds
            /\ Cardinality({i \in DOMAIN log' :
                               log'[i][1] \in ProjectKinds /\ log'[i][2] = "applied"}) <= 1
      ]_vars

\* both chains have been walked: a pass where fill_grid raised and
\* edge_face_add added faces, or a bottom whose smart_project raised and
\* whose project_from_view was applied
C20_Witness ==
    \/ /\ script = "fix_holes_aggressive"
       /\ \E k \in DOMAIN log : log[k][1] = "edge_face_add" /\ log[k][2] > 0
    \/ /\ script = "fix_bottom_uvs"
       /\ Len(log) >= 2
       /\ log[Len(log) - 1] = <<"smart_project", "failed">>
       /\ log[Len(log)] = <<"project_from_view", "applied">>

(***************************************************************************)
(* C21.  When fix_holes_aggressive is done with a mesh, the count it       *)
(* reported is the number of edges of that mesh that lie on exactly one    *)
(* face, and it announced "all holes closed" exactly when that number is   *)
(* 0, whether the pass loop ended on a pass without boundary edges or ran  *)
(* out of passes.                                                          *)
(***************************************************************************)
OneFaceEdges(m) == {e \in AllEdges(m) : Cardinality(FacesOfEdge(m, e)) = 1}

C21_RemainingCountReported ==
    (script = "fix_holes_aggressive" /\ pc = "object_done") =>
        /\ Len(log) > 0
        /\ log[Len(log)][1] = "remaining"
        /\ log[Len(log)][2] = Cardinality(OneFaceEdges(Mesh))
        /\ remaining_holes = Cardinality(OneFaceEdges(Mesh))
        /\ log[Len(log)][3] = "all_closed" <=> Cardinality(OneFaceEdges(Mesh)) = 0

\* a mesh is done after the loop ran out of passes, with boundary edges left
\* and a report that says so
C21_Witness ==
    /\ script = "fix_holes_aggressive" /\ pc = "object_done"
    /\ pass_num = MaxPasses
    /\ remaining_holes > 0
    /\ log[Len(log)][3] = "edges_remain"

(***************************************************************************)
(* C22.  The position threshold a split_by_angle run uses is the bottom of *)
(* the mesh plus the vertical extent times the height_percent the caller   *)
(* supplied.  Thresholds are in thousandths, as height_percent is.         *)
(***************************************************************************)
C22_HeightPercentHonoured ==
    (script = "split_by_angle" /\ pc \in {"classify", "skip", "materials", "assign"}) =>
        leg_height_threshold = 1000 * BoundMin(Mesh, "z") + height_percent * Width(Mesh, "z")

(***************************************************************************)
(* C23.  Cross-object isolation.  A step of a script leaves every mesh     *)
(* object other than the one being processed as it was: vertices, faces    *)
(* with their winding and material index, and material slots.  And the     *)
(* slots an object is given are those it would be given were it the first  *)
(* object processed: in make_legs_black_geometry the material made from    *)
(* the materials of the file as imported, in split_by_angle the materials  *)
(* named fabric and legs.                                                  *)
(***************************************************************************)
\* the slots object j was imported with, in a make_legs_black_geometry run
\* that is about to give the object obj its material
SlotsAtImport(j) ==
    IF j < obj THEN SubSeq(scene[j].materials, 1, Len(scene[j].materials) - 1)
    ELSE scene[j].materials

MaterialsAtImport == UNION {Range(SlotsAtImport(j)) : j \in DOMAIN scene}

OthersUntouched == \A j \in DOMAIN scene : j # obj => scene'[j] = scene[j]

C23_CrossObjectIsolation ==
    [][ /\ OthersUntouched
        /\ (script = "make_legs_black_geometry" /\ pc = "material") =>
               scene'[obj].materials =
                   Append(scene[obj].materials, NewMaterial(MaterialsAtImport, "Black_Legs"))
        /\ (script = "split_by_angle" /\ pc = "materials") =>
               scene'[obj].materials =
                   SplitSlots(scene[obj].materials, <<"fabric", 0>>, <<"legs", 0>>)
      ]_vars

(***************************************************************************)
(* C24.  When fix_bottom_normals is done with a mesh, no face whose centre *)
(* lies in the bottom 15% band (at or under threshold_y) has a normal with *)
(* a positive y component: the final normals_make_consistent keeps what    *)
(* the flip of the inverted bottom faces did.                              *)
(***************************************************************************)
C24_NoUpwardBottomFace ==
    (script = "fix_bottom_normals" /\ pc = "object_done") =>
        \A f \in DOMAIN Mesh.faces :
            InBottomBand(Mesh, f, threshold_y) => ~PointsUp(Mesh, f)

====
